---- MODULE Spec2Model ----
(***************************************************************************)
(* dnsspeedtest (src/src/main.rs): main tests each DNS provider in turn    *)
(* with test_dns_speed (warm-up lookup, then rounds x domains of TCP probe *)
(* + DNS lookup), summarises the recorded latencies into a TestResult,     *)
(* sorts the results by median and reports the first.                      *)
(*                                                                         *)
(* Durations are whole ticks; the timeout is TIMEOUT_SECS ticks.  The f64  *)
(* values (avg_duration's quotient, success_rate) are exact rationals      *)
(* [num, den] in lowest terms.                                             *)
(***************************************************************************)
EXTENDS Integers, Sequences, FiniteSets, TLC

\* ---------------------------------------------------------------- bounds
\* providers * rounds * domains of a plan is at most MaxQueries
MaxQueries == 4
\* a probe or lookup that succeeds takes 1..MaxTicks ticks
MaxTicks == 3

\* ------------------------------------------------------------- constants
DNS_PROVIDERS ==
    << "Google", "Cloudflare", "Quad9", "OpenDNS", "AdGuard",
       "Mullvad", "DNS0", "NextDNS", "ControlD" >>

TEST_DOMAINS ==
    << "google.com", "gitlab.com", "cloudflare.com", "microsoft.com",
       "github.com", "netflix.com", "amazon.com", "facebook.com",
       "wikipedia.org", "reddit.com" >>

TIMEOUT_SECS == 3

\* Option<T>: None, Some(x)
None == << >>
Some(x) == << x >>

Latencies == 1 .. MaxTicks

VARIABLES
    providers,       \* the provider list main iterates (names)
    domains,         \* the domain list of a round
    rounds,          \* the number of rounds
    pc,              \* position of the single thread of control
    provider,        \* main: 1-based index of the provider under test
    round,           \* test_dns_speed: the round, 0-based as in the code
    domain,          \* test_dns_speed: 1-based index of the current domain
    durations,       \* test_dns_speed: latencies of successful lookups
    failed_domains,  \* test_dns_speed: failure entries, in order
    total_queries,   \* test_dns_speed: attempts counted
    results,         \* main: the TestResults collected, later sorted
    fastest,         \* main: the entry reported as fastest, or None
    measured,        \* history: the last probe returned a measurement
    attempted,       \* history: the (provider, round, domain) pairs probed
    paused,          \* history: inter-query delay taken since the last probe
    roundSleeps      \* history: inter-round delays taken for this provider

vars == << providers, domains, rounds, pc, provider, round, domain,
           durations, failed_domains, total_queries, results, fastest,
           measured, attempted, paused, roundSleeps >>

plan == << providers, domains, rounds >>
locals == << round, domain, durations, failed_domains, total_queries >>

\* ---------------------------------------------------------------- helpers
Min(a, b) == IF a < b THEN a ELSE b

RECURSIVE GCD(_, _)
GCD(a, b) == IF b = 0 THEN a ELSE GCD(b, a % b)

\* n / d as an f64 quotient, kept exact
Rat(n, d) == LET g == GCD(n, d) IN [num |-> n \div g, den |-> d \div g]

RECURSIVE Sum(_)
Sum(s) == IF s = << >> THEN 0 ELSE Head(s) + Sum(Tail(s))

RECURSIVE InsertSorted(_, _)
InsertSorted(x, s) ==
    IF s = << >> THEN << x >>
    ELSE IF x < Head(s) THEN << x >> \o s
    ELSE << Head(s) >> \o InsertSorted(x, Tail(s))

\* faulty variant: the durations are left in arrival order
SortDurations_Unsorted(s) == s

\* durations.sort()
RECURSIVE SortDurations(_)
SortDurations(s) ==
    IF s = << >> THEN << >>
    ELSE InsertSorted(Head(s), SortDurations(Tail(s)))

\* format!("{} (TCP Failed)", domain)
TcpFailedEntry(name) == name \o " (TCP Failed)"

\* domain.to_string()
LookupFailedEntry(name) == name

\* Duration::from_secs(TIMEOUT_SECS)
Timeout == TIMEOUT_SECS

\* ------------------------------------------------- test_dns_speed: loops
Position(c, r, d) == [pc |-> c, round |-> r, domain |-> d]

\* faulty variant: the delay is taken after the final round too
InterRoundPause_EveryRound(r) == r < rounds

\* `if round < TEST_ROUNDS - 1`
InterRoundPause(r) == r < rounds - 1

\* head of `for round in 0..TEST_ROUNDS`
RoundStart(r) ==
    IF r < rounds THEN Position("probe", r, 1)
    ELSE Position("aggregate", r, Len(domains))

\* after the last domain of round r
RoundEnd(r) ==
    IF InterRoundPause(r) THEN Position("round_sleep", r, Len(domains))
    ELSE RoundStart(r + 1)

\* head of `for domain in TEST_DOMAINS`, after domain d of round r
DomainNext(r, d) ==
    IF d < Len(domains) THEN Position("probe", r, d + 1) ELSE RoundEnd(r)

\* faulty variant: `break` in place of `continue`
TcpFailedNext_Break(r, d) == RoundEnd(r)

\* faulty variant: the inter-query delay is taken before `continue`
TcpFailedNext_Sleep(r, d) == Position("query_sleep", r, d)

\* faulty variant: no `continue`, the lookup is issued all the same
TcpFailedNext_Lookup(r, d) == Position("lookup", r, d)

\* `continue` on a probe without measurement
TcpFailedNext(r, d) == DomainNext(r, d)

\* faulty variant: the TCP failure is not recorded
RecordTcpFailure_Dropped(fd, name) == fd

\* failed_domains.push(format!("{} (TCP Failed)", domain))
RecordTcpFailure(fd, name) == Append(fd, TcpFailedEntry(name))

Goto(pos) ==
    /\ pc' = pos.pc
    /\ round' = pos.round
    /\ domain' = pos.domain

\* ------------------------------------------- test_dns_speed: aggregation
\* faulty variant: the quotient is taken in integers before scaling
SuccessRate_IntDiv(successful, total) == Rat((successful \div total) * 100, 1)

\* (successful_queries as f64) / (total_queries as f64) * 100.0
SuccessRate(successful, total) == Rat(successful * 100, total)

\* avg_duration
AvgDuration(sorted) ==
    IF sorted # << >> THEN Rat(Sum(sorted), Len(sorted)) ELSE Rat(Timeout, 1)

\* durations.first().copied().unwrap_or(..)
MinLatency(sorted) == IF sorted # << >> THEN sorted[1] ELSE Timeout

\* durations.last().copied().unwrap_or(..)
MaxLatency(sorted) == IF sorted # << >> THEN sorted[Len(sorted)] ELSE Timeout

\* faulty variant: the lower of the two middle elements
MedianDuration_Lower(sorted) ==
    IF sorted # << >> THEN sorted[(Len(sorted) + 1) \div 2] ELSE Timeout

\* faulty variant: no sample gives a zero median
MedianDuration_ZeroSentinel(sorted) ==
    IF sorted # << >> THEN sorted[Len(sorted) \div 2 + 1] ELSE 0

\* durations[durations.len() / 2], 0-based in the code, 1-based here
MedianDuration(sorted) ==
    IF sorted # << >> THEN sorted[Len(sorted) \div 2 + 1] ELSE Timeout

\* lines 128-155, over the sorted durations
TestResult(name, sorted, fd, tq) ==
    [ provider        |-> name,
      avg_duration    |-> AvgDuration(sorted),
      min_latency     |-> MinLatency(sorted),
      max_latency     |-> MaxLatency(sorted),
      success_rate    |-> SuccessRate(Len(sorted), tq),
      failed_domains  |-> fd,
      median_duration |-> MedianDuration(sorted) ]

\* ------------------------------------------------------------ main: sort
\* faulty variant: equal medians compare as greater
After_OrEqual(a, b) == a.median_duration >= b.median_duration

\* a.median_duration.cmp(&b.median_duration) == Greater
After(a, b) == a.median_duration > b.median_duration

\* x goes behind every element that does not compare greater (stable)
RECURSIVE InsertResult(_, _)
InsertResult(x, s) ==
    IF s = << >> THEN << x >>
    ELSE IF After(Head(s), x) THEN << x >> \o s
    ELSE << Head(s) >> \o InsertResult(x, Tail(s))

RECURSIVE SortFrom(_, _)
SortFrom(done, rest) ==
    IF rest = << >> THEN done
    ELSE SortFrom(InsertResult(Head(rest), done), Tail(rest))

\* results.sort_by(|a, b| a.median_duration.cmp(&b.median_duration))
SortByMedian(rs) == SortFrom(<< >>, rs)

\* ------------------------------------------------------------------ Init
Plans ==
    { p \in (0 .. Min(MaxQueries, Len(DNS_PROVIDERS)))
            \X (1 .. MaxQueries)
            \X (1 .. Min(MaxQueries, Len(TEST_DOMAINS))) :
        p[1] * p[2] * p[3] <= MaxQueries }

Init ==
    /\ \E p \in Plans :
          /\ providers = SubSeq(DNS_PROVIDERS, 1, p[1])
          /\ rounds = p[2]
          /\ domains = SubSeq(TEST_DOMAINS, 1, p[3])
    /\ pc = "main"
    /\ provider = 1
    /\ round = 0
    /\ domain = 1
    /\ durations = << >>
    /\ failed_domains = << >>
    /\ total_queries = 0
    /\ results = << >>
    /\ fastest = None
    /\ measured = FALSE
    /\ attempted = {}
    /\ paused = FALSE
    /\ roundSleeps = 0

\* --------------------------------------------------------------- actions
\* main's loop enters test_dns_speed for the next provider
StartProvider ==
    /\ pc = "main"
    /\ provider <= Len(providers)
    /\ pc' = "warmup"
    /\ round' = 0
    /\ domain' = 1
    /\ durations' = << >>
    /\ measured' = FALSE
    /\ failed_domains' = << >>
    /\ total_queries' = 0
    /\ paused' = FALSE
    /\ roundSleeps' = 0
    /\ UNCHANGED << plan, provider, results, fastest, attempted >>

\* the warm-up lookup of example.com, its result discarded
WarmUp ==
    /\ pc = "warmup"
    /\ \E outcome \in {"Ok", "Err"} : pc' = "warm_sleep"
    /\ UNCHANGED << plan, provider, locals, results, fastest, measured, attempted,
                    paused, roundSleeps >>

\* the delay after the warm-up, then the loops begin
WarmSleep ==
    /\ pc = "warm_sleep"
    /\ Goto(RoundStart(0))
    /\ UNCHANGED << plan, provider, durations, failed_domains,
                    total_queries, results, fastest, measured, attempted, paused,
                    roundSleeps >>

\* one attempt begins: count it and probe the provider over TCP
Probe ==
    /\ pc = "probe"
    /\ total_queries' = total_queries + 1
    /\ attempted' = attempted \cup { << provider, round, domain >> }
    /\ paused' = FALSE
    /\ \E tcp_latency \in {None} \cup { Some(l) : l \in Latencies } :
          /\ measured' = (tcp_latency # None)
          /\ IF tcp_latency = None
             THEN /\ failed_domains' =
                        RecordTcpFailure(failed_domains, domains[domain])
                  /\ Goto(TcpFailedNext(round, domain))
             ELSE /\ failed_domains' = failed_domains
                  /\ Goto(Position("lookup", round, domain))
    /\ UNCHANGED << plan, provider, durations, results, fastest,
                    roundSleeps >>

\* the DNS lookup of the current domain
Lookup ==
    /\ pc = "lookup"
    /\ \E res \in {None} \cup { Some(l) : l \in Latencies } :
          IF res = None
          THEN /\ failed_domains' =
                     Append(failed_domains, LookupFailedEntry(domains[domain]))
               /\ durations' = durations
          ELSE /\ durations' = Append(durations, res[1])
               /\ failed_domains' = failed_domains
    /\ pc' = "query_sleep"
    /\ UNCHANGED << plan, provider, round, domain, total_queries, results, fastest, measured, attempted, paused,
                    roundSleeps >>

\* the inter-query delay that ends the loop body
QuerySleep ==
    /\ pc = "query_sleep"
    /\ paused' = TRUE
    /\ Goto(DomainNext(round, domain))
    /\ UNCHANGED << plan, provider, durations, failed_domains,
                    total_queries, results, fastest, measured, attempted, roundSleeps >>

\* the inter-round delay
RoundSleep ==
    /\ pc = "round_sleep"
    /\ roundSleeps' = roundSleeps + 1
    /\ Goto(RoundStart(round + 1))
    /\ UNCHANGED << plan, provider, durations, failed_domains,
                    total_queries, results, fastest, measured, attempted, paused >>

\* test_dns_speed summarises and returns; main pushes the result
Summarize ==
    /\ pc = "aggregate"
    /\ durations' = SortDurations(durations)
    /\ results' = Append(results,
          TestResult(providers[provider], durations', failed_domains,
                     total_queries))
    /\ provider' = provider + 1
    /\ pc' = "main"
    /\ UNCHANGED << plan, round, domain, failed_domains,
                    total_queries, fastest, measured, attempted, paused, roundSleeps >>

\* all providers tested: rank the results
SortResults ==
    /\ pc = "main"
    /\ provider > Len(providers)
    /\ results' = SortByMedian(results)
    /\ pc' = "report"
    /\ UNCHANGED << plan, provider, locals, fastest, measured, attempted, paused,
                    roundSleeps >>

\* the table, then `if let Some(fastest) = results.first()`
Report ==
    /\ pc = "report"
    /\ fastest' = IF results = << >> THEN None ELSE Some(results[1])
    /\ pc' = "done"
    /\ UNCHANGED << plan, provider, locals, results, measured, attempted, paused,
                    roundSleeps >>

Next ==
    \/ StartProvider
    \/ WarmUp
    \/ WarmSleep
    \/ Probe
    \/ Lookup
    \/ QuerySleep
    \/ RoundSleep
    \/ Summarize
    \/ SortResults
    \/ Report

Spec == Init /\ [][Next]_vars

\* every network operation and every delay eventually returns
FairSpec == Spec /\ WF_vars(Next)

\* ---------------------------------------------------------------- claims
Last(s) == s[Len(s)]

\* the step in which test_dns_speed summarises and returns
SummarizeStep == pc = "aggregate" /\ pc' = "main"

\* the step in which main sorts the results
SortStep == pc = "main" /\ pc' = "report"

\* the loops of test_dns_speed are between two attempts or past the last
BetweenAttempts ==
    pc \in {"probe", "round_sleep", "aggregate"} /\ total_queries > 0

\* x is the k-th smallest (1-based) of the samples s
IsKthSmallest(s, k, x) ==
    /\ Cardinality({ i \in DOMAIN s : s[i] < x }) < k
    /\ k <= Cardinality({ i \in DOMAIN s : s[i] <= x })
    /\ \E i \in DOMAIN s : s[i] = x

IndexOf(s, x) == CHOOSE i \in DOMAIN s : s[i] = x

\* after is before reordered ascending by median, ties in before's order
IsStableRanking(before, after) ==
    /\ Len(after) = Len(before)
    /\ { after[i] : i \in DOMAIN after } = { before[i] : i \in DOMAIN before }
    /\ \A i, j \in DOMAIN after :
          i < j =>
             /\ after[i].median_duration <= after[j].median_duration
             /\ after[i].median_duration = after[j].median_duration
                   => IndexOf(before, after[i]) < IndexOf(before, after[j])

AllPairs ==
    (1 .. Len(providers)) \X (0 .. rounds - 1) \X (1 .. Len(domains))

\* the failure list of a provider whose every probe failed
AllTcpFailed ==
    [ k \in 1 .. rounds * Len(domains) |->
        domains[((k - 1) % Len(domains)) + 1] \o " (TCP Failed)" ]

\* C1: when the loops of test_dns_speed have finished, the failure entries
\* and the recorded latencies together number rounds * domains (the warm-up
\* lookup adds to neither).
C1_SamplesAccountForPlan ==
    /\ pc = "aggregate" \/ (pc = "main" /\ provider > 1) =>
          Len(failed_domains) + Len(durations) = rounds * Len(domains)
    /\ \A i \in DOMAIN results :
          Len(results[i].failed_domains) <= rounds * Len(domains)

C1_Witness ==
    /\ pc = "aggregate"
    /\ Len(durations) = 2
    /\ failed_domains = << "google.com (TCP Failed)", "gitlab.com" >>

\* C2: in every summary, min <= median <= max when a query succeeded, and
\* min, median, max and avg all equal the timeout when none did.
C2_LatencyOrder ==
    \A i \in DOMAIN results :
        LET r == results[i] IN
        IF r.success_rate.num > 0
        THEN /\ r.min_latency <= r.median_duration
             /\ r.median_duration <= r.max_latency
        ELSE /\ r.min_latency = TIMEOUT_SECS
             /\ r.median_duration = TIMEOUT_SECS
             /\ r.max_latency = TIMEOUT_SECS
             /\ r.avg_duration = [num |-> TIMEOUT_SECS, den |-> 1]

C2_Witness ==
    /\ Len(results) = 2
    /\ results[1].success_rate.num = 0
    /\ results[2].min_latency < results[2].median_duration
    /\ results[2].median_duration <= results[2].max_latency

\* C3 as claimed: the median of an even number of latencies is the lower of
\* the two middle elements of the sorted latencies, of an odd number the
\* middle element.
C3_LowerMiddleMedian ==
    [][ SummarizeStep /\ durations # << >> =>
          IsKthSmallest(durations, (Len(durations) + 1) \div 2,
                        Last(results').median_duration) ]_vars

\* C3 amended: the median of an even number of latencies is the upper of the
\* two middle elements of the sorted latencies (10, 20, 30, 40 give 30), of
\* an odd number the middle element.
C3_UpperMiddleMedian ==
    [][ SummarizeStep /\ durations # << >> =>
          IsKthSmallest(durations, Len(durations) \div 2 + 1,
                        Last(results').median_duration) ]_vars

C3_Witness ==
    /\ pc = "main"
    /\ durations = << 1, 2, 3, 3 >>
    /\ Last(results).median_duration = 3

\* C4: sorting yields a permutation of the summaries, ascending by median,
\* equal medians in provider order; the fastest reported is the first entry,
\* a minimum-median one; with no providers the list is empty and no fastest
\* is reported.
C4_StableRanking ==
    /\ [][ SortStep => IsStableRanking(results, results') ]_vars
    /\ [] ( pc = "done" =>
              /\ Len(results) = Len(providers)
              /\ fastest = IF results = << >> THEN None
                           ELSE Some(results[1])
              /\ \A i \in DOMAIN results :
                    fastest[1].median_duration <= results[i].median_duration
              /\ providers = << >> => results = << >> /\ fastest = None )

C4_Witness ==
    /\ pc = "done"
    /\ Len(results) = 3
    /\ results[1].provider = "Cloudflare"
    /\ results[2].provider = "Google"
    /\ results[3].provider = "Quad9"
    /\ results[2].median_duration = results[3].median_duration
    /\ fastest = Some(results[1])

\* C5 as claimed: in the ranked list every provider with success rate 0
\* comes after every provider with a success rate above 0, the successful
\* latencies being at most the timeout.
C5_FailedProvidersLast ==
    pc \in {"report", "done"} =>
        \A i, j \in DOMAIN results :
            /\ results[i].success_rate.num = 0
            /\ results[j].success_rate.num > 0
            /\ results[j].max_latency <= TIMEOUT_SECS
            => j < i

\* C5 amended: in the ranked list every provider with success rate 0 comes
\* after every provider with a success rate above 0 whose median latency is
\* strictly below the timeout.
C5_FailedAfterFasterThanTimeout ==
    pc \in {"report", "done"} =>
        \A i, j \in DOMAIN results :
            /\ results[i].success_rate.num = 0
            /\ results[j].success_rate.num > 0
            /\ results[j].median_duration < TIMEOUT_SECS
            => j < i

C5_Witness ==
    /\ pc = "done"
    /\ Len(results) = 2
    /\ results[1].provider = "Cloudflare"
    /\ results[1].success_rate.num > 0
    /\ results[2].provider = "Google"
    /\ results[2].success_rate.num = 0

\* C6: the success rate of a summary is 100 * successes / (rounds * domains),
\* a pair whose TCP probe failed counting in the denominator.
C6_SuccessRate ==
    [][ SummarizeStep =>
          LET sr == Last(results').success_rate IN
          /\ sr.den > 0
          /\ sr.num * (rounds * Len(domains)) = 100 * Len(durations) * sr.den
      ]_vars

C6_Witness ==
    /\ pc = "main"
    /\ Len(durations) = 3
    /\ failed_domains = << "google.com (TCP Failed)" >>
    /\ Last(results).success_rate = [num |-> 75, den |-> 1]

\* C7: whatever fails, the run eventually finishes with every (round, domain)
\* pair of every provider attempted and one summary per provider, and a
\* provider whose every probe failed has a summary with success rate 0.
C7_RunCompletes ==
    /\ <> ( /\ pc = "done"
            /\ attempted = AllPairs
            /\ Len(results) = Len(providers)
            /\ \A p \in DOMAIN providers :
                  \E i \in DOMAIN results : results[i].provider = providers[p] )
    /\ [] ( \A i \in DOMAIN results :
               results[i].failed_domains = AllTcpFailed
                  => results[i].success_rate.num = 0 )

C7_Witness ==
    /\ pc = "done"
    /\ Len(results) = 2
    /\ results[1].failed_domains = AllTcpFailed
    /\ results[2].failed_domains = AllTcpFailed

\* C8 as claimed: an inter-query delay has been taken after every attempt
\* when the next attempt begins, whatever the attempt's outcome.
C8_PauseAfterEveryAttempt ==
    pc = "probe" /\ total_queries > 0 => paused

\* C8 amended: after an attempt whose probe returned a measurement the
\* inter-query delay is taken before the next attempt begins, whether the
\* lookup succeeded or failed; after a failed TCP probe it is not taken.
C8_PauseUnlessTcpFailed ==
    BetweenAttempts => (paused <=> measured)

C8_Witness ==
    /\ pc = "probe"
    /\ paused
    /\ failed_domains = << "google.com (TCP Failed)", "gitlab.com" >>

\* C9: a lookup is issued only for a pair whose probe returned a measurement;
\* a probe without measurement appends exactly '<domain> (TCP Failed)',
\* records no latency and moves to the next domain; with one round, one
\* domain and a failing probe the summary has rate 0, that one entry and
\* every latency field equal to the timeout.
C9_TcpFailureSkipsLookup ==
    /\ [][ /\ pc = "lookup" /\ pc' # "lookup" =>
                /\ measured
                /\ << provider, round, domain >> \in attempted
           /\ pc = "probe" /\ total_queries' # total_queries
                           /\ ~measured' =>
                /\ failed_domains' =
                      Append(failed_domains,
                             domains[domain] \o " (TCP Failed)")
                /\ durations' = durations
                /\ IF domain < Len(domains)
                   THEN pc' = "probe" /\ round' = round
                                      /\ domain' = domain + 1
                   ELSE \/ pc' = "round_sleep"
                        \/ pc' = "aggregate"
                        \/ pc' = "probe" /\ round' = round + 1 /\ domain' = 1
           /\ SummarizeStep /\ rounds = 1 /\ Len(domains) = 1
                            /\ ~measured =>
                Last(results') =
                   [ provider        |-> providers[provider],
                     avg_duration    |-> [num |-> TIMEOUT_SECS, den |-> 1],
                     min_latency     |-> TIMEOUT_SECS,
                     max_latency     |-> TIMEOUT_SECS,
                     success_rate    |-> [num |-> 0, den |-> 1],
                     failed_domains  |-> << "google.com (TCP Failed)" >>,
                     median_duration |-> TIMEOUT_SECS ]
         ]_vars

C9_Witness ==
    /\ pc = "main"
    /\ rounds = 1
    /\ Len(domains) = 1
    /\ ~measured
    /\ Len(results) = 1
    /\ results[1].failed_domains = << "google.com (TCP Failed)" >>

\* C10: per provider the inter-round delay is taken rounds - 1 times, each
\* after the last domain of a round that is not the final one and before the
\* first probe of the next round.
C10_InterRoundDelay ==
    /\ [] ( pc = "aggregate" => roundSleeps = rounds - 1 )
    /\ [][ roundSleeps' = roundSleeps + 1 =>
              /\ pc = "round_sleep"
              /\ round < rounds - 1
              /\ << provider, round, Len(domains) >> \in attempted
              /\ << provider, round + 1, 1 >> \notin attempted
              /\ pc' = "probe" /\ round' = round + 1 /\ domain' = 1
         ]_vars

C10_Witness ==
    /\ pc = "aggregate"
    /\ roundSleeps = 2
    /\ ~measured

====
